---------------------------- MODULE Spec2Model ----------------------------
(***************************************************************************)
(* Model of the /chat handler of src/index.js: the tiered matching         *)
(* pipeline (context search, general search, acceptance), the fallback     *)
(* chain (external API, static item) and the per-session memory.           *)
(*                                                                         *)
(* Scores and thresholds are percentages (0.4 is 40, 0.5 is 50); weights   *)
(* are tenths (1.0 is 10, 2.0 is 20).  The approximate matcher, the        *)
(* tokenizer and the language detector are libraries: each is a fixed      *)
(* table over the utterances of the model.                                 *)
(***************************************************************************)
EXTENDS Integers, Sequences, FiniteSets, TLC

\* ------------------------------------------------------------------ bounds
\* number of requests that arrive in one behaviour
MaxReq == 2
\* length of the answer templates and of the token lists that
\* personalizeAnswer is applied to on its own
MaxTemplateLen == 3
MaxTokens == 2

\* ------------------------------------------------------------ JS values
Null == "null"
\* an attribute or field that is not there (undefined)
Unset == -2
NaN == -1
NoField == "absent"
Empty == ""
Missing == "undefined"

\* parseFloat of an attribute: a number, or NaN when it is not there
ParseFloat(v) == IF v = Unset THEN NaN ELSE v

\* a || b on numbers: NaN and 0 are falsy
OrElse(a, b) == IF a = NaN \/ a = 0 THEN b ELSE a

\* a < b on numbers: every comparison with NaN is false
LessThan(a, b) == a # NaN /\ b # NaN /\ a < b

\* ------------------------------------------------------- knowledge base
\* the threshold of the context-restricted search (0.5)
ContextThreshold == 50
\* the matcher's threshold when settings.defaultThreshold does not parse (0.4)
FuseDefault == 40
\* settings.defaultThreshold of the knowledge base of the model ("0.4")
DefaultThresholdSetting == 40

SessionIds == {"s1", "s2"}
Utterances == {"halo budi", "pesan", "bayar", "cuaca jakarta", "hello"}

Item ==
  [ greet    |-> [lang |-> "id", intent |-> "greeting", threshold |-> Unset,
                  relevanceWeight |-> Unset, nextContextId |-> "order",
                  answers |-> << <<"Halo", "{name}">> >>],
    weather1 |-> [lang |-> "id", intent |-> "weather", threshold |-> Unset,
                  relevanceWeight |-> 10, nextContextId |-> NoField,
                  answers |-> << <<"Cuaca", "di", "{city}", "cerah">> >>],
    weather2 |-> [lang |-> "id", intent |-> "weather", threshold |-> Unset,
                  relevanceWeight |-> 20, nextContextId |-> NoField,
                  answers |-> << <<"{city}", "cerah", "{city}">>, <<"Cerah">> >>],
    fallback |-> [lang |-> "id", intent |-> "fallback", threshold |-> Unset,
                  relevanceWeight |-> Unset, nextContextId |-> NoField,
                  answers |-> << <<"Maaf">> >>],
    helloEn  |-> [lang |-> "en", intent |-> "greeting", threshold |-> 30,
                  relevanceWeight |-> Unset, nextContextId |-> NoField,
                  answers |-> << <<"Hello", "{name}">> >>],
    ord1     |-> [lang |-> "id", intent |-> "order", threshold |-> Unset,
                  relevanceWeight |-> Unset, nextContextId |-> NoField,
                  answers |-> << <<"Pesanan", "dicatat">> >>],
    ord2     |-> [lang |-> "id", intent |-> "order", threshold |-> 0,
                  relevanceWeight |-> Unset, nextContextId |-> "ghost",
                  answers |-> << <<"Bayar", "di", "kasir">> >>],
    ord3     |-> [lang |-> "id", intent |-> "order", threshold |-> 60,
                  relevanceWeight |-> Unset, nextContextId |-> "order",
                  answers |-> << <<"Halo", "{name}", "mau", "pesan", "apa">> >>] ]

\* chatbotConfig.qaItems: the standalone items, in document order
qaItems == <<"greet", "weather1", "weather2", "fallback", "helloEn">>

\* chatbotConfig.contexts
contexts == << [id |-> "order", item |-> <<"ord1", "ord2", "ord3">>] >>

\* chatbotConfig.intents (names) and chatbotConfig.entities
intents == <<"greeting", "weather", "order">>
entities == << [name |-> "name", values |-> {"budi"}],
               [name |-> "city", values |-> {"jakarta"}] >>

ContextIds == {"order", "ghost"}

\* the matcher's score of an utterance against an item's questions;
\* 100 when the item does not match at all
NoMatch == 100
QaScore(q, it) ==
  CASE q = "halo budi"     /\ it = "greet"    -> 10
    [] q = "halo budi"     /\ it = "ord3"     -> 45
    [] q = "pesan"         /\ it = "ord1"     -> 45
    [] q = "bayar"         /\ it = "ord2"     -> 20
    [] q = "cuaca jakarta" /\ it = "weather1" -> 30
    [] q = "cuaca jakarta" /\ it = "weather2" -> 35
    [] q = "hello"         /\ it = "helloEn"  -> 30
    [] OTHER -> NoMatch

\* the matcher's score of an utterance against an intent's keywords
IntentScore(q, name) ==
  CASE q = "halo budi"     /\ name = "greeting" -> 10
    [] q = "hello"         /\ name = "greeting" -> 20
    [] q = "pesan"         /\ name = "order"    -> 10
    [] q = "cuaca jakarta" /\ name = "weather"  -> 10
    [] q = "cuaca jakarta" /\ name = "order"    -> 35
    [] OTHER -> NoMatch

\* tokenizer.tokenize(userInput.toLowerCase())
Tokenize(q) ==
  CASE q = "halo budi"     -> <<"halo", "budi">>
    [] q = "pesan"         -> <<"pesan">>
    [] q = "bayar"         -> <<"bayar">>
    [] q = "cuaca jakarta" -> <<"cuaca", "jakarta">>
    [] q = "hello"         -> <<"hello">>
    [] OTHER -> << >>

\* the label the language detector gives an utterance
DetectorLabel(q) == IF q = "hello" THEN "english" ELSE "indonesian"

\* ------------------------------------------------------------- the matcher
RECURSIVE InsertByScore(_, _)
\* insert result x into the ascending sequence rs, after every result that
\* is not worse (stable)
InsertByScore(rs, x) ==
  IF rs = << >> THEN <<x>>
  ELSE IF x.score < Head(rs).score THEN <<x>> \o rs
  ELSE <<Head(rs)>> \o InsertByScore(Tail(rs), x)

RECURSIVE SortByScore(_)
SortByScore(rs) ==
  IF rs = << >> THEN << >>
  ELSE InsertByScore(SortByScore(SubSeq(rs, 1, Len(rs) - 1)), rs[Len(rs)])

\* new Fuse(list, {includeScore, threshold}).search(q) over Q&A items: the
\* items whose score is within the threshold, best (lowest) score first
FuseQaSearch(list, q, threshold) ==
  LET all == [i \in 1..Len(list) |-> [item |-> list[i], score |-> QaScore(q, list[i])]]
      Within(r) == r.score <= threshold
  IN SortByScore(SelectSeq(all, Within))

\* fuseInstances.intents.search(q)
FuseIntentSearch(q, threshold) ==
  LET all == [i \in 1..Len(intents) |->
                [item |-> intents[i], score |-> IntentScore(q, intents[i])]]
      Within(r) == r.score <= threshold
  IN SortByScore(SelectSeq(all, Within))

\* the threshold both indices are built with
IndexThreshold(config) == OrElse(ParseFloat(config.defaultThreshold), FuseDefault)

\* allQaItems: the standalone items followed by every context's items
RECURSIVE FlatContextItems(_)
FlatContextItems(cs) ==
  IF cs = << >> THEN << >> ELSE Head(cs).item \o FlatContextItems(Tail(cs))

allQaItems == qaItems \o FlatContextItems(contexts)

\* langQaItems: the items the index of a language is built from
LangQaItems(lang) ==
  LET OfLang(id) == Item[id].lang = lang
  IN SelectSeq(allQaItems, OfLang)

\* ------------------------------------------------------- pure functions
\* detectLanguage(text)
detectLanguage(config, text) ==
  IF config.autoDetectLanguage # "true" THEN "id"
  ELSE IF DetectorLabel(text) = "indonesian" THEN "id"
  ELSE IF DetectorLabel(text) = "english" THEN "en"
  ELSE "id"

\* getRandomAnswer(item): the answers Math.random may pick
getRandomAnswer(it) == { Item[it].answers[i] : i \in 1..Len(Item[it].answers) }

\* the last token of tokens that is a value of the entity, or NoField
RECURSIVE LastMatch(_, _)
LastMatch(tokens, values) ==
  IF tokens = << >> THEN NoField
  ELSE IF tokens[Len(tokens)] \in values THEN tokens[Len(tokens)]
  ELSE LastMatch(SubSeq(tokens, 1, Len(tokens) - 1), values)

\* recognizeEntities(tokens): the found entities in insertion order
RECURSIVE RecognizeFrom(_, _)
RecognizeFrom(es, tokens) ==
  IF es = << >> THEN << >>
  ELSE LET m == LastMatch(tokens, Head(es).values)
       IN (IF m = NoField THEN << >> ELSE << [name |-> Head(es).name, value |-> m] >>)
          \o RecognizeFrom(Tail(es), tokens)

recognizeEntities(tokens) == RecognizeFrom(entities, tokens)

Placeholder(key) == "{" \o key \o "}"

\* String.replace(pattern, value) with a string pattern: the first occurrence
RECURSIVE ReplaceEvery(_, _, _)
\* String.replaceAll(pattern, value): every occurrence
ReplaceEvery(text, pattern, value) ==
  IF text = << >> THEN << >>
  ELSE IF Head(text) = pattern THEN <<value>> \o ReplaceEvery(Tail(text), pattern, value)
  ELSE <<Head(text)>> \o ReplaceEvery(Tail(text), pattern, value)

RECURSIVE ReplaceFirst(_, _, _)
ReplaceFirst(text, pattern, value) ==
  IF text = << >> THEN << >>
  ELSE IF Head(text) = pattern THEN <<value>> \o Tail(text)
  ELSE <<Head(text)>> \o ReplaceFirst(Tail(text), pattern, value)

\* personalizeAnswer(answer, entities)
RECURSIVE personalizeAnswer(_, _)
personalizeAnswer(answer, found) ==
  IF found = << >> THEN answer
  ELSE personalizeAnswer(ReplaceFirst(answer, Placeholder(Head(found).name), Head(found).value),
                         Tail(found))

\* ------------------------------------------------------------ the pipeline
\* no candidate (bestMatch = null)
NoBest == [item |-> NoField, score |-> Unset]

\* the context search that takes the first context for an id it cannot find
ContextSearchFirstContext(context, q) ==
  IF context = Null THEN NoBest
  ELSE LET found == SelectSeq(contexts, LAMBDA c : c.id = context)
           data == IF found = << >> THEN Head(contexts) ELSE Head(found)
       IN IF data.item = << >> THEN NoBest
          ELSE LET contextResult == FuseQaSearch(data.item, q, ContextThreshold)
               IN IF Len(contextResult) > 0 THEN contextResult[1] ELSE NoBest

\* step 4: the top result of the search restricted to the session's context
ContextSearch(context, q) ==
  IF context = Null THEN NoBest
  ELSE LET found == SelectSeq(contexts, LAMBDA c : c.id = context)
       IN IF found = << >> \/ Head(found).item = << >> THEN NoBest
          ELSE LET contextResult == FuseQaSearch(Head(found).item, q, ContextThreshold)
               IN IF Len(contextResult) > 0 THEN contextResult[1] ELSE NoBest

\* step 5a: the detected intent
DetectIntent(config, q) ==
  LET intentResults == FuseIntentSearch(q, IndexThreshold(config))
  IN IF Len(intentResults) > 0 THEN intentResults[1].item ELSE "unknown"

\* parseFloat(item.relevanceWeight || 1.0)
Weight(it) == IF Item[it].relevanceWeight = Unset THEN 10 ELSE Item[it].relevanceWeight

RECURSIVE InsertByProduct(_, _)
\* insertion under the comparator a.score * weightA - b.score * weightB
InsertByProduct(rs, x) ==
  IF rs = << >> THEN <<x>>
  ELSE IF x.score * Weight(x.item) < Head(rs).score * Weight(Head(rs).item)
       THEN <<x>> \o rs
  ELSE <<Head(rs)>> \o InsertByProduct(Tail(rs), x)

RECURSIVE InsertByWeight(_, _)
\* insertion under the comparator a.score / weightA - b.score / weightB
InsertByWeight(rs, x) ==
  IF rs = << >> THEN <<x>>
  ELSE IF x.score * Weight(Head(rs).item) < Head(rs).score * Weight(x.item)
       THEN <<x>> \o rs
  ELSE <<Head(rs)>> \o InsertByWeight(Tail(rs), x)

RECURSIVE SortByWeight(_)
SortByWeight(rs) ==
  IF rs = << >> THEN << >>
  ELSE InsertByWeight(SortByWeight(SubSeq(rs, 1, Len(rs) - 1)), rs[Len(rs)])

\* the general search with the intent as a hard filter
GeneralSearchHardFilter(config, q, lang) ==
  LET detectedIntent == DetectIntent(config, q)
      langItems == LangQaItems(lang)
  IN IF langItems = << >> THEN NoBest
     ELSE LET searchResults == FuseQaSearch(langItems, q, IndexThreshold(config))
              relevantResults ==
                SelectSeq(searchResults, LAMBDA r : Item[r.item].intent = detectedIntent)
          IN IF Len(relevantResults) > 0 THEN SortByWeight(relevantResults)[1]
             ELSE NoBest

\* step 5b: the candidate of the general search in the language's index
GeneralSearch(config, q, lang) ==
  LET detectedIntent == DetectIntent(config, q)
      langItems == LangQaItems(lang)
  IN IF langItems = << >> THEN NoBest
     ELSE LET searchResults == FuseQaSearch(langItems, q, IndexThreshold(config))
              relevantResults ==
                SelectSeq(searchResults, LAMBDA r : Item[r.item].intent = detectedIntent)
          IN IF Len(relevantResults) > 0 THEN SortByWeight(relevantResults)[1]
             ELSE IF Len(searchResults) > 0 THEN searchResults[1]
             ELSE NoBest

\* the threshold a candidate is compared against
EffectiveThreshold(config, it) ==
  OrElse(ParseFloat(Item[it].threshold), ParseFloat(config.defaultThreshold))

\* the acceptance test with <= in place of <
AcceptedAtThreshold(config, bestMatch) ==
  /\ bestMatch # NoBest
  /\ bestMatch.score <= EffectiveThreshold(config, bestMatch.item)

\* step 6: the acceptance test
Accepted(config, bestMatch) ==
  /\ bestMatch # NoBest
  /\ LessThan(bestMatch.score, EffectiveThreshold(config, bestMatch.item))

\* the next context taken from the wrong attribute of the item
NextContextFromIntent(it) == Item[it].intent

\* item.nextContextId || null
NextContext(it) ==
  IF Item[it].nextContextId = NoField THEN Null ELSE Item[it].nextContextId

\* the pipeline with the general search run first and the context search
\* only as its substitute
PipelineGeneralFirst(config, q, context) ==
  LET lang == detectLanguage(config, q)
      contextResult == ContextSearch(context, q)
      general == GeneralSearch(config, q, lang)
      bestMatch == IF general # NoBest THEN general ELSE contextResult
  IN [lang |-> lang,
      foundEntities |-> recognizeEntities(Tokenize(q)),
      contextResult |-> contextResult,
      ranGeneral |-> TRUE,
      bestMatch |-> bestMatch,
      accepted |-> Accepted(config, bestMatch)]

\* the pipeline with the general search run again when the context
\* candidate fails the acceptance test
PipelineRetryGeneral(config, q, context) ==
  LET lang == detectLanguage(config, q)
      contextResult == ContextSearch(context, q)
      ranGeneral == ~Accepted(config, contextResult)
      bestMatch == IF ranGeneral THEN GeneralSearch(config, q, lang) ELSE contextResult
  IN [lang |-> lang,
      foundEntities |-> recognizeEntities(Tokenize(q)),
      contextResult |-> contextResult,
      ranGeneral |-> ranGeneral,
      bestMatch |-> bestMatch,
      accepted |-> Accepted(config, bestMatch)]

\* steps 1 to 6 of a request on a session whose active context is context
Pipeline(config, q, context) ==
  LET lang == detectLanguage(config, q)
      contextResult == ContextSearch(context, q)
      ranGeneral == contextResult = NoBest
      bestMatch == IF ranGeneral THEN GeneralSearch(config, q, lang) ELSE contextResult
  IN [lang |-> lang,
      foundEntities |-> recognizeEntities(Tokenize(q)),
      contextResult |-> contextResult,
      ranGeneral |-> ranGeneral,
      bestMatch |-> bestMatch,
      accepted |-> Accepted(config, bestMatch)]

\* step 8: the static fallback item of a language, or NoField
FallbackItem(lang) ==
  LET found == SelectSeq(qaItems, LAMBDA it : Item[it].intent = "fallback" /\ Item[it].lang = lang)
  IN IF found = << >> THEN NoField ELSE Head(found)

\* the literal answer when the API's reply has no answer field
ApiDefaultAnswer == <<"Maaf,", "API", "eksternal", "juga", "bingung.">>

\* ------------------------------------------------------------------ state
VARIABLES
  chatbotConfig,        \* settings of the knowledge base, fixed after loading
  conversationMemory,   \* sessionId -> [history, context], created sessions only
  reqs,                 \* the requests received so far, in order of arrival
  probe                 \* one application of personalizeAnswer on its own

vars == <<chatbotConfig, conversationMemory, reqs, probe>>

\* no application of personalizeAnswer on its own
NoProbe == [template |-> << >>, tokens |-> << >>, result |-> << >>, applied |-> FALSE]

\* the classes the tokenizer setting may name
Tokenizers == {"WordTokenizer"}

Configs ==
  [defaultThreshold : {DefaultThresholdSetting},
   autoDetectLanguage : {"true", "false"},
   tokenizer : {"WordTokenizer", "Bogus"},
   apiFallback : {"url", NoField}]

\* a JSON body: fields names the keys that are present
Body(fields, answer, intent, score, source, context, language, ents) ==
  [fields |-> fields, answer |-> answer, intent |-> intent, score |-> score,
   source |-> source, context |-> context, language |-> language, entities |-> ents]

ErrorBody == Body({"error"}, << >>, NoField, Unset, NoField, NoField, NoField, << >>)

Response(status, body) == [status |-> status, body |-> body]

\* a request that has not run the pipeline
BareRequest(q, sid) ==
  [q |-> q, sessionId |-> sid, pc |-> "done", contextBefore |-> NoField,
   lang |-> NoField, foundEntities |-> << >>, contextResult |-> NoBest,
   ranGeneral |-> FALSE, bestMatch |-> NoBest, accepted |-> FALSE,
   tiers |-> << >>, api |-> "unused", endpoint |-> "unused", finished |-> 0,
   created |-> FALSE, responses |-> << >>]

\* a request that ran steps 1 to 6 with result p
PipelineRequest(q, sid, context, p, created) ==
  [BareRequest(q, sid) EXCEPT
     !.contextBefore = context, !.lang = p.lang, !.foundEntities = p.foundEntities,
     !.contextResult = p.contextResult, !.ranGeneral = p.ranGeneral,
     !.bestMatch = p.bestMatch, !.accepted = p.accepted,
     !.tiers = <<"local">>, !.created = created]

\* the number of requests whose handler has run to its end
FinishedCount == Cardinality({k \in 1..Len(reqs) : reqs[k].pc = "done"})

\* reqs with request i set to r (a new request when i is past the end); a
\* request whose handler ends in this step gets its place in the order of
\* finishing
Store(i, r) ==
  LET stamped == IF r.pc = "done" THEN [r EXCEPT !.finished = FinishedCount + 1] ELSE r
  IN IF i > Len(reqs) THEN Append(reqs, stamped) ELSE [reqs EXCEPT ![i] = stamped]

\* the check of line 185 without its sessionId half
ClientInputErrorNoSessionId(q, sid) == q = Empty

\* line 185: !userInput || !sessionId
ClientInputError(q, sid) == q = Empty \/ sid = Missing

\* lines 190-195: the memory with the session of sid created when it is new
GetOrCreate(memory, sid) ==
  IF sid \in DOMAIN memory THEN memory
  ELSE [s \in DOMAIN memory \cup {sid} |->
          IF s = sid THEN [history |-> << >>, context |-> Null] ELSE memory[s]]

\* the update with the context kept in one place for all sessions
UpdateSharedContext(memory, sid, q, answer, context) ==
  [s \in DOMAIN memory |->
     IF s = sid
     THEN [history |-> Append(memory[s].history, [user |-> q, bot |-> answer]),
           context |-> context]
     ELSE [memory[s] EXCEPT !.context = context]]

\* the update with history.unshift in place of history.push
UpdatePrepend(memory, sid, q, answer, context) ==
  [memory EXCEPT ![sid] = [history |-> <<[user |-> q, bot |-> answer]>> \o @.history,
                           context |-> context]]

\* session.history.push and session.context = ... on the session of sid
Update(memory, sid, q, answer, context) ==
  [memory EXCEPT ![sid] = [history |-> Append(@.history, [user |-> q, bot |-> answer]),
                           context |-> context]]

Init ==
  /\ chatbotConfig \in Configs
  /\ conversationMemory = << >>
  /\ reqs = << >>
  /\ probe = NoProbe

\* lines 259-276: the local answer of request i
LocalAnswer(memory, i, r) ==
  \E template \in getRandomAnswer(r.bestMatch.item) :
    LET answer == personalizeAnswer(template, r.foundEntities)
        context == NextContext(r.bestMatch.item)
    IN /\ conversationMemory' = Update(memory, r.sessionId, r.q, answer, context)
       /\ reqs' = Store(i, [r EXCEPT !.pc = "done", !.responses = Append(@,
            Response(200, Body({"answer", "intent", "score", "source", "context",
                                "language", "entities"},
                               answer, Item[r.bestMatch.item].intent, r.bestMatch.score,
                               "local_qa", context, r.lang, r.foundEntities)))])

\* the static fallback without the reset of the context (line 307)
StaticFallbackKeepsContext(memory, i, r0) ==
  LET r == [r0 EXCEPT !.tiers = Append(@, "static")]
      fallbackItem == FallbackItem(r.lang)
  IN IF fallbackItem # NoField
     THEN \E fallbackAnswer \in getRandomAnswer(fallbackItem) :
            /\ conversationMemory' =
                 Update(memory, r.sessionId, r.q, fallbackAnswer, memory[r.sessionId].context)
            /\ reqs' = Store(i, [r EXCEPT !.pc = "done", !.responses = Append(@,
                 Response(200, Body({"answer", "intent", "source", "context", "language"},
                                    fallbackAnswer, "fallback", Unset, "local_fallback",
                                    Null, r.lang, << >>)))])
     ELSE /\ conversationMemory' = memory
          /\ reqs' = Store(i, [r EXCEPT !.pc = "done"])

\* lines 302-316: the static fallback of request i; without a fallback item
\* of the language the handler returns and sends nothing
StaticFallback(memory, i, r0) ==
  LET r == [r0 EXCEPT !.tiers = Append(@, "static")]
      fallbackItem == FallbackItem(r.lang)
  IN IF fallbackItem # NoField
     THEN \E fallbackAnswer \in getRandomAnswer(fallbackItem) :
            /\ conversationMemory' = Update(memory, r.sessionId, r.q, fallbackAnswer, Null)
            /\ reqs' = Store(i, [r EXCEPT !.pc = "done", !.responses = Append(@,
                 Response(200, Body({"answer", "intent", "source", "context", "language"},
                                    fallbackAnswer, "fallback", Unset, "local_fallback",
                                    Null, r.lang, << >>)))])
     ELSE /\ conversationMemory' = memory
          /\ reqs' = Store(i, [r EXCEPT !.pc = "done"])

\* the external service either replies to a call (with a result or an
\* error) or never does; axios.get is called without a timeout
Endpoints == {"replies", "silent"}

\* app.get('/chat'), lines 181-283 and 302-322: a request arrives and runs
\* until it responds, returns, or suspends in the external call
Chat(q, sid) ==
  /\ Len(reqs) < MaxReq
  /\ UNCHANGED <<chatbotConfig, probe>>
  /\ LET i == Len(reqs) + 1 IN
     IF ClientInputError(q, sid)
     THEN /\ reqs' = Store(i, [BareRequest(q, sid) EXCEPT
                                 !.responses = <<Response(400, ErrorBody)>>])
          /\ UNCHANGED conversationMemory
     ELSE LET memory == GetOrCreate(conversationMemory, sid)
              created == sid \notin DOMAIN conversationMemory
              session == memory[sid]
          IN IF chatbotConfig.tokenizer \notin Tokenizers
             THEN /\ conversationMemory' = memory
                  /\ reqs' = Store(i, [BareRequest(q, sid) EXCEPT
                                         !.contextBefore = session.context,
                                         !.lang = detectLanguage(chatbotConfig, q),
                                         !.created = created,
                                         !.responses = <<Response(500, ErrorBody)>>])
             ELSE LET p == Pipeline(chatbotConfig, q, session.context)
                      r == PipelineRequest(q, sid, session.context, p, created)
                  IN IF p.accepted THEN LocalAnswer(memory, i, r)
                     ELSE IF chatbotConfig.apiFallback # NoField
                     THEN \E endpoint \in Endpoints :
                          /\ conversationMemory' = memory
                          /\ reqs' = Store(i, [r EXCEPT !.pc = "await_api",
                                                        !.api = "pending",
                                                        !.endpoint = endpoint,
                                                        !.tiers = Append(@, "api")])
                     ELSE StaticFallback(memory, i, [r EXCEPT !.api = "not_configured"])

\* the replies of the external service: an answer, or a body without one
ApiAnswers == {<<"Jawaban", "API">>, << >>}

\* the external call succeeds and the handler prefers the static item
ApiResolveThenStatic(i, data) ==
  /\ i \in 1..Len(reqs)
  /\ reqs[i].pc = "await_api"
  /\ reqs[i].endpoint = "replies"
  /\ UNCHANGED <<chatbotConfig, probe>>
  /\ StaticFallback(conversationMemory, i, [reqs[i] EXCEPT !.api = "resolved"])

\* the external call succeeds and the handler resets the context only when
\* no other request has changed it since this one read it
ApiResolveIfUnchanged(i, data) ==
  /\ i \in 1..Len(reqs)
  /\ reqs[i].pc = "await_api"
  /\ reqs[i].endpoint = "replies"
  /\ UNCHANGED <<chatbotConfig, probe>>
  /\ LET r == reqs[i]
         apiAnswer == IF data = << >> THEN ApiDefaultAnswer ELSE data
         current == conversationMemory[r.sessionId].context
         context == IF current = r.contextBefore THEN Null ELSE current
     IN /\ conversationMemory' = Update(conversationMemory, r.sessionId, r.q, apiAnswer, context)
        /\ reqs' = Store(i, [r EXCEPT !.pc = "done", !.api = "resolved",
                                      !.responses = Append(@,
             Response(200, Body({"answer", "intent", "source", "context", "language"},
                                apiAnswer, "api_fallback", Unset, "api_fallback",
                                Null, r.lang, << >>)))])

\* the external call succeeds and the response repeats the score of the
\* rejected candidate, as the local answer of lines 268-276 does
ApiResolveWithScore(i, data) ==
  /\ i \in 1..Len(reqs)
  /\ reqs[i].pc = "await_api"
  /\ reqs[i].endpoint = "replies"
  /\ UNCHANGED <<chatbotConfig, probe>>
  /\ LET r == reqs[i]
         apiAnswer == IF data = << >> THEN ApiDefaultAnswer ELSE data
     IN /\ conversationMemory' = Update(conversationMemory, r.sessionId, r.q, apiAnswer, Null)
        /\ reqs' = Store(i, [r EXCEPT !.pc = "done", !.api = "resolved",
                                      !.responses = Append(@,
             Response(200, Body({"answer", "intent", "score", "source", "context", "language"},
                                apiAnswer, "api_fallback", r.bestMatch.score, "api_fallback",
                                Null, r.lang, << >>)))])

\* lines 283-296: the external call of request i succeeds
ApiResolve(i, data) ==
  /\ i \in 1..Len(reqs)
  /\ reqs[i].pc = "await_api"
  /\ reqs[i].endpoint = "replies"
  /\ UNCHANGED <<chatbotConfig, probe>>
  /\ LET r == reqs[i]
         apiAnswer == IF data = << >> THEN ApiDefaultAnswer ELSE data
     IN /\ conversationMemory' = Update(conversationMemory, r.sessionId, r.q, apiAnswer, Null)
        /\ reqs' = Store(i, [r EXCEPT !.pc = "done", !.api = "resolved",
                                      !.responses = Append(@,
             Response(200, Body({"answer", "intent", "source", "context", "language"},
                                apiAnswer, "api_fallback", Unset, "api_fallback",
                                Null, r.lang, << >>)))])

\* the external call fails without the inner catch: the outer catch of
\* lines 318-321 reports a server error
ApiRejectSurfaced(i) ==
  /\ i \in 1..Len(reqs)
  /\ reqs[i].pc = "await_api"
  /\ reqs[i].endpoint = "replies"
  /\ UNCHANGED <<chatbotConfig, conversationMemory, probe>>
  /\ reqs' = Store(i, [reqs[i] EXCEPT !.pc = "done", !.api = "rejected",
                                      !.responses = Append(@, Response(500, ErrorBody))])

\* lines 297-299: the external call of request i fails; the handler goes on
\* to the static fallback
ApiReject(i) ==
  /\ i \in 1..Len(reqs)
  /\ reqs[i].pc = "await_api"
  /\ reqs[i].endpoint = "replies"
  /\ UNCHANGED <<chatbotConfig, probe>>
  /\ StaticFallback(conversationMemory, i, [reqs[i] EXCEPT !.api = "rejected"])

Next ==
  \/ \E q \in Utterances \cup {Empty}, sid \in SessionIds \cup {Missing} : Chat(q, sid)
  \/ \E i \in 1..MaxReq, data \in ApiAnswers : ApiResolve(i, data)
  \/ \E i \in 1..MaxReq : ApiReject(i)

Spec == Init /\ [][Next]_vars

\* ------------------------------------------- personalizeAnswer on its own
\* the sequences over S of length at most n
SeqsUpTo(S, n) == UNION { [1..k -> S] : k \in 0..n }

\* the words of the answer templates and of the tokenized utterances
TemplateWords == {"di", "{name}", "{city}"}
UtteranceWords == {"halo", "budi", "jakarta"}

\* a template and the tokens of an utterance, not yet personalized
PersonalizeInit ==
  /\ chatbotConfig = [defaultThreshold |-> DefaultThresholdSetting,
                      autoDetectLanguage |-> "true",
                      tokenizer |-> "WordTokenizer", apiFallback |-> NoField]
  /\ conversationMemory = << >>
  /\ reqs = << >>
  /\ probe \in [template : SeqsUpTo(TemplateWords, MaxTemplateLen),
                 tokens : SeqsUpTo(UtteranceWords, MaxTokens),
                 result : {<< >>}, applied : {FALSE}]

\* lines 208 and 261: personalizeAnswer(answer, recognizeEntities(tokens))
Personalize ==
  /\ ~probe.applied
  /\ probe' = [probe EXCEPT
                 !.result = personalizeAnswer(probe.template, recognizeEntities(probe.tokens)),
                 !.applied = TRUE]
  /\ UNCHANGED <<chatbotConfig, conversationMemory, reqs>>

PersonalizeNext == Personalize

PersonalizeSpec == PersonalizeInit /\ [][PersonalizeNext]_vars

\* every continuation that can run does run: the event loop resumes a
\* handler once its external call has settled
FairSpec == Spec /\ WF_vars(Next)

\* ----------------------------------------------------------------- claims
\* a query that carries both a non-empty utterance and a sessionId
ValidQuery(r) == r.q # Empty /\ r.sessionId # Missing

\* request i took this step
StepOf(i) == i \in 1..Len(reqs') /\ (i > Len(reqs) \/ reqs'[i] # reqs[i])

\* request i arrived in this step
Arrived(i) == i = Len(reqs') /\ i > Len(reqs)

\* request i sent a response in this step
Sent(i) ==
  /\ StepOf(i)
  /\ Len(reqs'[i].responses) > (IF i > Len(reqs) THEN 0 ELSE Len(reqs[i].responses))

\* the last response of a request that has one
LastResponse(r) == r.responses[Len(r.responses)]

\* request r was answered with a local match
AnsweredLocally(r) ==
  \E k \in 1..Len(r.responses) : r.responses[k].body.source = "local_qa"

\* request r went on to the fallback chain
WentToFallback(r) == Len(r.tiers) >= 2 /\ r.tiers[2] \in {"api", "static"}

\* C1: every query with a non-empty utterance and a sessionId receives
\* exactly one terminal response: once its handler has run to its end the
\* request has been answered, and answered once, also when no local match is
\* accepted, no external fallback works and no static fallback item of the
\* detected language exists.
C1_TerminalResponse ==
  \A i \in 1..Len(reqs) :
    (ValidQuery(reqs[i]) /\ reqs[i].pc = "done") => Len(reqs[i].responses) = 1

\* C2: a session entry for s exists only after a query with a non-empty
\* utterance and sessionId s was received; a query missing either gets a
\* client error and leaves the session table, contexts and histories as
\* they were.
C2_LazySessions ==
  [][ /\ \A s \in DOMAIN conversationMemory' :
           \E i \in 1..Len(reqs') : ValidQuery(reqs'[i]) /\ reqs'[i].sessionId = s
      /\ \A i \in 1..Len(reqs') :
           (Arrived(i) /\ ~ValidQuery(reqs'[i])) =>
             /\ reqs'[i].responses = <<Response(400, ErrorBody)>>
             /\ conversationMemory' = conversationMemory ]_vars

\* a query without sessionId got its client error while one session exists
\* and the other does not
C2_Witness ==
  /\ \E i \in 1..Len(reqs) : reqs[i].q # Empty /\ reqs[i].sessionId = Missing
                             /\ Len(reqs[i].responses) = 1
  /\ DOMAIN conversationMemory # {}
  /\ DOMAIN conversationMemory # SessionIds

\* C3: whenever the session's active context resolves and the top candidate
\* of the context-restricted search has score < 0.5, the request is answered
\* from that context item as a local match, and the session's context
\* becomes that item's next-context reference (or null).
C3_ContextMatchAnswers ==
  [][ \A i \in 1..Len(reqs') :
        (Arrived(i) /\ reqs'[i].contextResult # NoBest
                    /\ reqs'[i].contextResult.score < ContextThreshold) =>
          /\ Len(reqs'[i].responses) = 1
          /\ LastResponse(reqs'[i]).body.source = "local_qa"
          /\ reqs'[i].bestMatch = reqs'[i].contextResult
          /\ conversationMemory'[reqs'[i].sessionId].context
               = NextContext(reqs'[i].contextResult.item) ]_vars

\* C4: acceptance is strict: a candidate whose score equals or exceeds its
\* effective threshold is rejected and the request goes to the fallback
\* chain; a local-match response is given only for score < threshold.
C4_StrictAcceptance ==
  \A i \in 1..Len(reqs) :
    LET r == reqs[i]
        local == AnsweredLocally(r)
    IN r.bestMatch # NoBest =>
         LET threshold == EffectiveThreshold(chatbotConfig, r.bestMatch.item)
         IN /\ r.bestMatch.score >= threshold => (~local /\ WentToFallback(r))
            /\ local => r.bestMatch.score < threshold

\* a candidate with score equal to its threshold went to the fallback chain,
\* and another one with a lower score was answered locally
C4_Witness ==
  /\ \E i \in 1..Len(reqs) :
       /\ reqs[i].bestMatch # NoBest
       /\ reqs[i].bestMatch.score = EffectiveThreshold(chatbotConfig, reqs[i].bestMatch.item)
       /\ WentToFallback(reqs[i])
  /\ \E i \in 1..Len(reqs) :
       /\ Len(reqs[i].responses) = 1
       /\ LastResponse(reqs[i]).body.source = "local_qa"

\* the threshold C5 states: the item's override whenever it carries one
StatedThreshold(config, it) ==
  IF Item[it].threshold # Unset THEN Item[it].threshold ELSE config.defaultThreshold

\* C5: a chosen candidate is compared against the item's own threshold
\* override whenever the item carries one, whatever its value, and against
\* the global default only when the item carries none.
C5_OverrideWins ==
  \A i \in 1..Len(reqs) :
    reqs[i].bestMatch # NoBest =>
      (AnsweredLocally(reqs[i]) <=>
         reqs[i].bestMatch.score < StatedThreshold(chatbotConfig, reqs[i].bestMatch.item))

\* C6: when no local match is accepted, the external call fails or no
\* endpoint is configured, and a standalone item with intent "fallback" and
\* the detected language exists, the response has source "local_fallback"
\* with an answer of that item; the failure is not surfaced and the source
\* is not "api_fallback".
C6_StaticFallbackAnswers ==
  \A i \in 1..Len(reqs) :
    LET r == reqs[i]
        items == { it \in DOMAIN Item :
                     /\ \E k \in 1..Len(qaItems) : qaItems[k] = it
                     /\ Item[it].intent = "fallback" /\ Item[it].lang = r.lang }
    IN (r.api \in {"rejected", "not_configured"} /\ ~AnsweredLocally(r) /\ items # {}) =>
         /\ Len(r.responses) = 1
         /\ r.responses[1].status = 200
         /\ r.responses[1].body.source = "local_fallback"
         /\ \E it \in items : \E k \in 1..Len(Item[it].answers) :
              r.responses[1].body.answer = Item[it].answers[k]

\* a request whose candidate was rejected and whose external call failed
\* was answered with the static fallback item's answer
C6_Witness ==
  \E i \in 1..Len(reqs) :
    /\ reqs[i].bestMatch # NoBest
    /\ reqs[i].api = "rejected"
    /\ Len(reqs[i].responses) = 1
    /\ reqs[i].responses[1].body.source = "local_fallback"
    /\ reqs[i].responses[1].body.answer = <<"Maaf">>

\* C7: the tiers of a request run in the order local match attempt,
\* external fallback, static fallback: the external call is issued only
\* after the local attempt accepted nothing, the static item is consulted
\* only after the external call failed or was not configured, and a request
\* whose external call succeeded is not answered from the static fallback.
C7_TierOrder ==
  \A i \in 1..Len(reqs) :
    LET r == reqs[i]
        Ran(t) == \E k \in 1..Len(r.tiers) : r.tiers[k] = t
    IN /\ r.tiers \in { << >>, <<"local">>, <<"local", "api">>,
                        <<"local", "static">>, <<"local", "api", "static">> }
       /\ Ran("api") => (~AnsweredLocally(r) /\ ~r.accepted)
       /\ Ran("static") => (~AnsweredLocally(r) /\ r.api \in {"rejected", "not_configured"})
       /\ r.api = "resolved" =>
            /\ ~Ran("static")
            /\ \A k \in 1..Len(r.responses) : r.responses[k].body.source = "api_fallback"

\* one request ran all three tiers, another was answered by the external
\* service
C7_Witness ==
  /\ \E i \in 1..Len(reqs) : reqs[i].tiers = <<"local", "api", "static">>
  /\ \E i \in 1..Len(reqs) :
       reqs[i].api = "resolved" /\ Len(reqs[i].responses) = 1
         /\ reqs[i].responses[1].body.source = "api_fallback"

FallbackSources == {"api_fallback", "local_fallback"}

\* C8: whenever a request is answered with source "api_fallback" or
\* "local_fallback", the session's active context is null when the response
\* is sent and the response's context field is null.
C8_FallbackClearsContext ==
  [][ \A i \in 1..Len(reqs') :
        (Sent(i) /\ LastResponse(reqs'[i]).body.source \in FallbackSources) =>
          /\ conversationMemory'[reqs'[i].sessionId].context = Null
          /\ LastResponse(reqs'[i]).body.context = Null
          /\ "context" \in LastResponse(reqs'[i]).body.fields ]_vars

\* a request that found its session in a context was answered by a fallback
C8_Witness ==
  \E i \in 1..Len(reqs) :
    /\ reqs[i].contextBefore \in ContextIds
    /\ Len(reqs[i].responses) = 1
    /\ reqs[i].responses[1].body.source \in FallbackSources
    /\ conversationMemory[reqs[i].sessionId].context = Null

\* the history of a session, empty before the session exists
HistoryOf(memory, s) == IF s \in DOMAIN memory THEN memory[s].history ELSE << >>

\* the active context of a session, null before the session exists
ContextOf(memory, s) == IF s \in DOMAIN memory THEN memory[s].context ELSE Null

\* C9: a request with sessionId s reads and writes only the context and
\* history of session s: every other session is unchanged by each of its
\* steps, the context it reads is its own session's, and requests with the
\* same utterance that read the same own context get the same match.
C9_SessionIsolation ==
  [][ /\ \A i \in 1..Len(reqs') :
           StepOf(i) =>
             /\ \A s \in DOMAIN conversationMemory :
                  s # reqs'[i].sessionId =>
                    /\ s \in DOMAIN conversationMemory'
                    /\ conversationMemory'[s] = conversationMemory[s]
             /\ DOMAIN conversationMemory' \subseteq
                  DOMAIN conversationMemory \cup {reqs'[i].sessionId}
             /\ (Arrived(i) /\ reqs'[i].tiers # << >>) =>
                  reqs'[i].contextBefore
                    = ContextOf(conversationMemory, reqs'[i].sessionId)
      /\ \A i, j \in 1..Len(reqs') :
           (/\ reqs'[i].tiers # << >> /\ reqs'[j].tiers # << >>
            /\ reqs'[i].q = reqs'[j].q
            /\ reqs'[i].contextBefore = reqs'[j].contextBefore) =>
             /\ reqs'[i].bestMatch = reqs'[j].bestMatch
             /\ reqs'[i].accepted = reqs'[j].accepted ]_vars

\* two sessions hold different contexts, and a request of each was answered
C9_Witness ==
  /\ DOMAIN conversationMemory = SessionIds
  /\ conversationMemory["s1"].context \in ContextIds
  /\ conversationMemory["s2"].context = Null
  /\ Len(conversationMemory["s1"].history) > 0
  /\ Len(conversationMemory["s2"].history) > 0
  /\ reqs[Len(reqs)].sessionId = "s2"

\* C10: each session's history is append-only: entries are never removed,
\* reordered or altered, and every success response appends exactly one
\* pair of the request's utterance and the answer returned in it; a step
\* without a success response leaves the history as it was.
C10_AppendOnlyHistory ==
  [][ /\ \A s \in SessionIds :
           LET h == HistoryOf(conversationMemory, s)
               hNew == HistoryOf(conversationMemory', s)
           IN \/ hNew = h
              \/ Len(hNew) = Len(h) + 1 /\ SubSeq(hNew, 1, Len(h)) = h
      /\ \A i \in 1..Len(reqs') :
           (StepOf(i) /\ ValidQuery(reqs'[i])) =>
             LET s == reqs'[i].sessionId
                 h == HistoryOf(conversationMemory, s)
                 hNew == HistoryOf(conversationMemory', s)
             IN IF Sent(i) /\ LastResponse(reqs'[i]).status = 200
                THEN hNew = Append(h, [user |-> reqs'[i].q,
                                       bot |-> LastResponse(reqs'[i]).body.answer])
                ELSE hNew = h ]_vars

\* one session's history holds a personalised local answer followed by a
\* fallback answer
C10_Witness ==
  \E s \in DOMAIN conversationMemory :
    /\ Len(conversationMemory[s].history) = 2
    /\ conversationMemory[s].history[1] = [user |-> "halo budi", bot |-> <<"Halo", "budi">>]
    /\ \E i \in 1..Len(reqs) :
         /\ reqs[i].sessionId = s
         /\ Len(reqs[i].responses) = 1
         /\ reqs[i].responses[1].body.source \in FallbackSources
         /\ conversationMemory[s].history[2]
              = [user |-> reqs[i].q, bot |-> reqs[i].responses[1].body.answer]

\* request r ran the matching pipeline
RanPipeline(r) == r.tiers # << >>

\* the ids that resolve in the knowledge base
ResolvedContextIds == { contexts[k].id : k \in 1..Len(contexts) }

\* C11: a request on a session whose active context was set by a prior turn
\* evaluates the context-restricted search first: intent classification and
\* the general search run only when the context path yields no candidate,
\* and when it yields one that candidate is the one chosen.
C11_ContextFirst ==
  \A i \in 1..Len(reqs) :
    (RanPipeline(reqs[i]) /\ reqs[i].contextBefore # Null) =>
      /\ reqs[i].contextResult # NoBest =>
           (~reqs[i].ranGeneral /\ reqs[i].bestMatch = reqs[i].contextResult)
      /\ reqs[i].contextResult = NoBest => reqs[i].ranGeneral

\* in context "order" the utterance "halo budi" was given the context item
\* ord3 (score 45), although the general search has greet (score 10) for it
C11_Witness ==
  \E i \in 1..Len(reqs) :
    /\ reqs[i].contextBefore = "order"
    /\ reqs[i].q = "halo budi"
    /\ reqs[i].bestMatch = [item |-> "ord3", score |-> 45]
    /\ ~reqs[i].ranGeneral

\* C12: a request on a session whose active context id matches no context
\* of the knowledge base is processed by the general search exactly as a
\* request on a session without active context, and gets no error result.
C12_UnresolvedContext ==
  \A i \in 1..Len(reqs) :
    (RanPipeline(reqs[i]) /\ reqs[i].contextBefore \notin ResolvedContextIds \cup {Null}) =>
      /\ reqs[i].contextResult = NoBest
      /\ reqs[i].ranGeneral
      /\ reqs[i].bestMatch = Pipeline(chatbotConfig, reqs[i].q, Null).bestMatch
      /\ reqs[i].accepted = Pipeline(chatbotConfig, reqs[i].q, Null).accepted
      /\ \A j \in 1..Len(reqs) :
           (RanPipeline(reqs[j]) /\ reqs[j].contextBefore = Null /\ reqs[j].q = reqs[i].q) =>
             /\ reqs[j].bestMatch = reqs[i].bestMatch
             /\ reqs[j].accepted = reqs[i].accepted
             /\ reqs[j].tiers[1] = reqs[i].tiers[1]
      /\ \A k \in 1..Len(reqs[i].responses) : reqs[i].responses[k].status = 200

\* "bayar" was asked twice on one session: first without context, then in
\* the unresolved context "ghost" its first answer left, with the same match
C12_Witness ==
  \E i, j \in 1..Len(reqs) :
    /\ reqs[i].contextBefore = "ghost" /\ reqs[j].contextBefore = Null
    /\ reqs[i].q = "bayar" /\ reqs[j].q = "bayar"
    /\ reqs[i].bestMatch = [item |-> "ord2", score |-> 20]
    /\ Len(reqs[i].responses) = 1 /\ reqs[i].responses[1].status = 200

\* C13: the external fallback call is bounded in time: a request that
\* reaches the external call gets a response even when the endpoint never
\* replies, because the call is abandoned after a bounded wait and the
\* request degrades to the static fallback tier (here: a request whose
\* language has a static fallback item to degrade to).
C13_BoundedExternalCall ==
  \A i \in 1..MaxReq :
    (/\ i <= Len(reqs)
     /\ reqs[i].pc = "await_api"
     /\ reqs[i].endpoint = "silent"
     /\ FallbackItem(reqs[i].lang) # NoField)
      ~> (i <= Len(reqs) /\ Len(reqs[i].responses) > 0)

\* the requests of session s that got a success response
Succeeded(s) ==
  { i \in 1..Len(reqs) :
      /\ reqs[i].sessionId = s
      /\ Len(reqs[i].responses) = 1
      /\ reqs[i].responses[1].status = 200 }

\* C14: requests in flight on the same sessionId race on the session: the
\* active context is the value written by the request that finished last
\* and the history pairs are in the order of finishing, whatever the order
\* of arrival; so a request that arrived first and was suspended in the
\* external call resets to null a context set by a later request that
\* finished while it waited, and its pair lands after that request's pair.
C14_LastWriteWins ==
  \A s \in DOMAIN conversationMemory :
    LET done == Succeeded(s)
        Rank(i) == Cardinality({ j \in done : reqs[j].finished <= reqs[i].finished })
    IN /\ Len(conversationMemory[s].history) = Cardinality(done)
       /\ \A i \in done :
            /\ conversationMemory[s].history[Rank(i)]
                 = [user |-> reqs[i].q, bot |-> reqs[i].responses[1].body.answer]
            /\ Rank(i) = Cardinality(done) =>
                 conversationMemory[s].context = reqs[i].responses[1].body.context
       /\ done = {} => conversationMemory[s].context = Null

\* the first request waited in the external call while the second, on the
\* same session, set the context "order"; then the first one's call
\* returned: the context is null and its pair is the last one
C14_Witness ==
  /\ Len(reqs) = 2
  /\ reqs[1].sessionId = reqs[2].sessionId
  /\ reqs[1].api = "resolved"
  /\ Len(reqs[2].responses) = 1
  /\ reqs[2].responses[1].body.source = "local_qa"
  /\ reqs[2].responses[1].body.context = "order"
  /\ reqs[2].finished < reqs[1].finished
  /\ conversationMemory[reqs[1].sessionId].context = Null
  /\ conversationMemory[reqs[1].sessionId].history
       = << [user |-> reqs[2].q, bot |-> reqs[2].responses[1].body.answer],
            [user |-> reqs[1].q, bot |-> reqs[1].responses[1].body.answer] >>

\* the candidates of the general search of request r: the items of the
\* language whose score is within the index threshold
Candidates(r) ==
  { it \in DOMAIN Item :
      /\ \E k \in 1..Len(allQaItems) : allQaItems[k] = it
      /\ Item[it].lang = r.lang
      /\ QaScore(r.q, it) <= IndexThreshold(chatbotConfig) }

\* the candidates of request r whose intent is the detected intent
Relevant(r) ==
  { it \in Candidates(r) : Item[it].intent = DetectIntent(chatbotConfig, r.q) }

\* the relevance weight of an item in tenths, 1.0 when it is not set
StatedWeight(it) ==
  IF Item[it].relevanceWeight = Unset THEN 10 ELSE Item[it].relevanceWeight

\* C15: among the candidates whose intent equals the detected intent the
\* chosen one minimises rawScore / relevanceWeight (weight 1.0 when unset);
\* of (score 0.30, weight 1.0) and (score 0.35, weight 2.0) the second is
\* chosen.
C15_WeightedRanking ==
  \A i \in 1..Len(reqs) :
    LET r == reqs[i] IN
    (RanPipeline(r) /\ r.ranGeneral /\ Relevant(r) # {}) =>
      /\ r.bestMatch.item \in Relevant(r)
      /\ r.bestMatch.score = QaScore(r.q, r.bestMatch.item)
      /\ \A c \in Relevant(r) :
           r.bestMatch.score * StatedWeight(c)
             <= QaScore(r.q, c) * StatedWeight(r.bestMatch.item)
      /\ r.q = "cuaca jakarta" => r.bestMatch = [item |-> "weather2", score |-> 35]

\* "cuaca jakarta" had the candidates weather1 (0.30, weight 1.0) and
\* weather2 (0.35, weight 2.0) of the detected intent, and weather2 answered
C15_Witness ==
  \E i \in 1..Len(reqs) :
    /\ reqs[i].ranGeneral
    /\ Relevant(reqs[i]) = {"weather1", "weather2"}
    /\ QaScore(reqs[i].q, "weather1") = 30 /\ StatedWeight("weather1") = 10
    /\ QaScore(reqs[i].q, "weather2") = 35 /\ StatedWeight("weather2") = 20
    /\ reqs[i].bestMatch.item = "weather2"
    /\ AnsweredLocally(reqs[i])

\* C16 as stated: a response with source "api_fallback" carries no intent
\* field and no score field.
C16_NoIntentNoScore ==
  \A i \in 1..Len(reqs) : \A k \in 1..Len(reqs[i].responses) :
    reqs[i].responses[k].body.source = "api_fallback" =>
      /\ "intent" \notin reqs[i].responses[k].body.fields
      /\ "score" \notin reqs[i].responses[k].body.fields

\* C16 as amended: a response with source "api_fallback" carries no score
\* field; it does carry an intent field, whose value is "api_fallback".
C16_NoScoreField ==
  \A i \in 1..Len(reqs) : \A k \in 1..Len(reqs[i].responses) :
    reqs[i].responses[k].body.source = "api_fallback" =>
      /\ "score" \notin reqs[i].responses[k].body.fields
      /\ reqs[i].responses[k].body.score = Unset
      /\ "intent" \in reqs[i].responses[k].body.fields
      /\ reqs[i].responses[k].body.intent = "api_fallback"

\* a request whose candidate had a score was answered by the external service
C16_Witness ==
  \E i \in 1..Len(reqs) :
    /\ reqs[i].bestMatch # NoBest
    /\ Len(reqs[i].responses) = 1
    /\ reqs[i].responses[1].body.source = "api_fallback"

\* the value a template word is replaced with: the last token of the
\* utterance that is a value of the entity the word is the placeholder of
ValueFor(word, tokens) ==
  LET values == IF word = "{name}" THEN {"budi"}
                ELSE IF word = "{city}" THEN {"jakarta"} ELSE {}
      hits == { k \in 1..Len(tokens) : tokens[k] \in values }
  IN IF hits = {} THEN NoField
     ELSE tokens[CHOOSE k \in hits : \A j \in hits : j <= k]

\* C17: personalize replaces, for each recognized entity, only the first
\* occurrence of its placeholder in the template with the matched value
\* and leaves every other word verbatim, placeholders of unrecognized
\* entities included; a template with no matching placeholder comes back
\* unchanged.
C17_FirstOccurrenceOnly ==
  probe.applied =>
    /\ Len(probe.result) = Len(probe.template)
    /\ \A k \in 1..Len(probe.template) :
         LET word == probe.template[k]
             first == \A j \in 1..(k - 1) : probe.template[j] # word
         IN IF first /\ ValueFor(word, probe.tokens) # NoField
            THEN probe.result[k] = ValueFor(word, probe.tokens)
            ELSE probe.result[k] = word
    /\ (\A k \in 1..Len(probe.template) : ValueFor(probe.template[k], probe.tokens) = NoField)
         => probe.result = probe.template

\* a template with the placeholder of a recognized entity twice and that of
\* an unrecognized one once was personalized
C17_Witness ==
  /\ probe.applied
  /\ probe.template = <<"{name}", "{city}", "{name}">>
  /\ probe.tokens = <<"halo", "budi">>
  /\ probe.result = <<"budi", "{city}", "{name}">>

\* C18: intent agreement is a soft preference: when the general search has
\* candidates but none whose intent equals the detected intent ("unknown"
\* included), the top unfiltered candidate is chosen and goes to the
\* acceptance test; a non-empty candidate set never yields "no candidate".
C18_SoftIntentFilter ==
  \A i \in 1..Len(reqs) :
    LET r == reqs[i] IN
    (RanPipeline(r) /\ r.ranGeneral /\ Candidates(r) # {}) =>
      /\ r.bestMatch # NoBest
      /\ Relevant(r) = {} =>
           /\ r.bestMatch.item \in Candidates(r)
           /\ r.bestMatch.score = QaScore(r.q, r.bestMatch.item)
           /\ \A c \in Candidates(r) : r.bestMatch.score <= QaScore(r.q, c)
           /\ AnsweredLocally(r) <=>
                LessThan(r.bestMatch.score, EffectiveThreshold(chatbotConfig, r.bestMatch.item))

\* "bayar" has no intent ("unknown") and the candidate ord2 of intent
\* "order": ord2 was chosen and answered
C18_Witness ==
  \E i \in 1..Len(reqs) :
    /\ reqs[i].ranGeneral
    /\ DetectIntent(chatbotConfig, reqs[i].q) = "unknown"
    /\ Candidates(reqs[i]) = {"ord2"}
    /\ Relevant(reqs[i]) = {}
    /\ reqs[i].bestMatch.item = "ord2"
    /\ AnsweredLocally(reqs[i])

\* the context candidate of request r has score < 0.5 and fails the
\* acceptance test
ContextCandidateRejected(r) ==
  /\ r.contextResult # NoBest
  /\ r.contextResult.score < ContextThreshold
  /\ ~LessThan(r.contextResult.score, EffectiveThreshold(chatbotConfig, r.contextResult.item))

\* C19: when the context-restricted search yields a candidate (score < 0.5)
\* that fails the acceptance test, the general search is not run for that
\* request: it goes straight to the fallback tiers, and a fallback answer
\* clears the session's context.
C19_RejectedContextCandidate ==
  [][ \A i \in 1..Len(reqs') :
        ContextCandidateRejected(reqs'[i]) =>
          /\ Arrived(i) =>
               /\ ~reqs'[i].ranGeneral
               /\ reqs'[i].bestMatch = reqs'[i].contextResult
               /\ ~AnsweredLocally(reqs'[i])
               /\ WentToFallback(reqs'[i])
          /\ (Sent(i) /\ LastResponse(reqs'[i]).status = 200) =>
               /\ LastResponse(reqs'[i]).body.source \in FallbackSources
               /\ conversationMemory'[reqs'[i].sessionId].context = Null ]_vars

\* in context "order" the utterance "pesan" had the context candidate ord1
\* (score 0.45, threshold 0.4); the static fallback answered and the
\* context is null
C19_Witness ==
  \E i \in 1..Len(reqs) :
    /\ reqs[i].contextBefore = "order"
    /\ reqs[i].contextResult = [item |-> "ord1", score |-> 45]
    /\ EffectiveThreshold(chatbotConfig, "ord1") = 40
    /\ Len(reqs[i].responses) = 1
    /\ reqs[i].responses[1].body.source = "local_fallback"
    /\ conversationMemory[reqs[i].sessionId].context = Null

\* C20: each session's active context is null or the next-context
\* reference of an item, standalone or context-nested, that was accepted as
\* a local match for that session; no other value is stored.
C20_ContextValues ==
  \A s \in DOMAIN conversationMemory :
    \/ conversationMemory[s].context = Null
    \/ \E i \in 1..Len(reqs) :
         /\ reqs[i].sessionId = s
         /\ AnsweredLocally(reqs[i])
         /\ reqs[i].bestMatch.item \in DOMAIN Item
         /\ Item[reqs[i].bestMatch.item].nextContextId = conversationMemory[s].context

\* one session holds the next-context reference of the standalone item
\* greet, the other that of the context-nested item ord2
C20_Witness ==
  /\ DOMAIN conversationMemory = SessionIds
  /\ \E s, t \in SessionIds :
       /\ conversationMemory[s].context = "order"
       /\ conversationMemory[t].context = "ghost"

=============================================================================
